---- MODULE Spec2Model ----
(***************************************************************************)
(* Voter registration: eligible-name lists (RegisteredVoter), registered   *)
(* voters (Voter), the registration view and the admin checks.             *)
(*                                                                         *)
(* A Python str is modelled as a sequence of one-character strings.        *)
(***************************************************************************)
EXTENDS Integers, Sequences, FiniteSets, TLC

\* ------------------------------------------------------------------ bounds
\* longest list text and longest candidate name of the matcher inputs
MaxTextLen == 3
MaxNameLen == 2
\* RegisteredVoter primary keys run 1..MaxListId
MaxListId == 2

VARIABLES
    lists,       \* RegisteredVoter table: the rows [pk, names], in the order
                 \* RegisteredVoter.objects.all() returns them
    nextListId,  \* the next RegisteredVoter pk (auto-increment, never reused)
    voters,      \* Voter table: the set of persisted rows
    req,         \* the registration request in flight in voter_forms
    last,        \* the most recent operation and how it ended
    ptext,       \* matcher input: a list text
    pname,       \* matcher input: a candidate name
    pres         \* matcher output

vars == <<lists, nextListId, voters, req, last, ptext, pname, pres>>
dbvars == <<lists, nextListId, voters, req, last>>

\* ----------------------------------------------------------------- strings
NL == "\n"
SP == " "
Chars == {"a", "A", "b", SP, NL}

\* str.isspace for the characters of the model: what str.strip() removes
IsSpace(c) == c \in {SP, NL}

\* str.lower, one character
LowerChar(c) == IF c = "A" THEN "a" ELSE c

\* str.lower()
lower(s) == [i \in 1..Len(s) |-> LowerChar(s[i])]

RECURSIVE lstrip(_)
lstrip(s) ==
    IF s = <<>> THEN <<>>
    ELSE IF IsSpace(Head(s)) THEN lstrip(Tail(s)) ELSE s

RECURSIVE rstrip(_)
rstrip(s) ==
    IF s = <<>> THEN <<>>
    ELSE IF IsSpace(s[Len(s)]) THEN rstrip(SubSeq(s, 1, Len(s) - 1)) ELSE s

\* str.strip()
strip(s) == rstrip(lstrip(s))

\* str.split('\n'): the segments between the separators, empty ones kept
RECURSIVE split(_)
split(s) ==
    IF \A i \in 1..Len(s) : s[i] # NL THEN <<s>>
    ELSE LET i == CHOOSE k \in 1..Len(s) :
                      s[k] = NL /\ \A j \in 1..(k - 1) : s[j] # NL
         IN  <<SubSeq(s, 1, i - 1)>> \o split(SubSeq(s, i + 1, Len(s)))

Range(q) == {q[i] : i \in 1..Len(q)}

\* the strings of at most n characters
RECURSIVE StringsUpTo(_)
StringsUpTo(n) ==
    IF n = 0 THEN {<<>>}
    ELSE LET shorter == StringsUpTo(n - 1)
         IN  shorter \cup {Append(s, c) : s \in shorter, c \in Chars}

\* -------------------------------------------------------- RegisteredVoter
\* get_eligible_names without its "if name.strip()" filter
get_eligible_names_keep_blank(names) ==
    IF names # <<>>
    THEN [i \in 1..Len(split(names)) |-> lower(strip(split(names)[i]))]
    ELSE <<>>

\* get_eligible_names without .lower()
get_eligible_names_nolower(names) ==
    IF names # <<>>
    THEN LET kept == SelectSeq(split(names), LAMBDA name : strip(name) # <<>>)
         IN  [i \in 1..Len(kept) |-> strip(kept[i])]
    ELSE <<>>

\* RegisteredVoter.get_eligible_names: a list, one entry per non-blank line
get_eligible_names(names) ==
    IF names # <<>>
    THEN LET kept == SelectSeq(split(names), LAMBDA name : strip(name) # <<>>)
         IN  [i \in 1..Len(kept) |-> lower(strip(kept[i]))]
    ELSE <<>>

\* the membership test without .strip() on the candidate
name_in_list_nostrip(fullname, names) ==
    lower(fullname) \in Range(get_eligible_names(names))

\* the membership test without .lower() on the candidate
name_in_list_nolower(fullname, names) ==
    strip(fullname) \in Range(get_eligible_names(names))

\* the test of Voter.is_eligible_voter's loop body on one list
name_in_list(fullname, names) ==
    strip(lower(fullname)) \in Range(get_eligible_names(names))

\* ------------------------------------------------------------------ Voter
None == 0

\* is_eligible_voter that keeps scanning and returns the last match
RECURSIVE is_eligible_voter_last(_, _)
is_eligible_voter_last(fullname, registered_lists) ==
    IF registered_lists = <<>> THEN None
    ELSE LET later == is_eligible_voter_last(fullname, Tail(registered_lists))
         IN  IF later # None THEN later
             ELSE IF name_in_list(fullname, Head(registered_lists).names)
                  THEN Head(registered_lists).pk
                  ELSE None

\* Voter.is_eligible_voter over registered_lists, the rows of
\* RegisteredVoter.objects.all() in the order the query returned them
RECURSIVE is_eligible_voter(_, _)
is_eligible_voter(fullname, registered_lists) ==
    IF registered_lists = <<>> THEN None
    ELSE IF name_in_list(fullname, Head(registered_lists).names)
         THEN Head(registered_lists).pk
         ELSE is_eligible_voter(fullname, Tail(registered_lists))

\* clean that keeps a registered_list the instance already carries
clean_keep_preset(self, registered_lists) ==
    LET eligible_list == is_eligible_voter(self.fullname, registered_lists)
    IN  IF eligible_list = None
        THEN [raised |-> TRUE, self |-> self]
        ELSE [raised |-> FALSE,
              self |-> IF self.registered_list = None
                       THEN [self EXCEPT !.registered_list = eligible_list]
                       ELSE self]

\* Voter.clean: raises, or assigns registered_list
clean(self, registered_lists) ==
    LET eligible_list == is_eligible_voter(self.fullname, registered_lists)
    IN  IF eligible_list = None
        THEN [raised |-> TRUE, self |-> self]
        ELSE [raised |-> FALSE, self |-> [self EXCEPT !.registered_list = eligible_list]]

\* the unique checks with student_id left out
unique_ok_no_student_id(self, others) ==
    \A o \in others :
        /\ o.fullname # self.fullname
        /\ o.email # self.email
        /\ o.telephone # self.telephone

\* unique=True on fullname, email, telephone and student_id
unique_ok(self, others) ==
    \A o \in others :
        /\ o.fullname # self.fullname
        /\ o.email # self.email
        /\ o.telephone # self.telephone
        /\ o.student_id # self.student_id

\* save that goes straight to the database, without self.clean()
save_without_clean(self, others, registered_lists) ==
    IF ~unique_ok(self, others)
    THEN [outcome |-> "IntegrityError", rows |-> {}]
    ELSE [outcome |-> "saved", rows |-> {self}]

\* Voter.save of self, others being the other rows of the table
save(self, others, registered_lists) ==
    LET c == clean(self, registered_lists)
    IN  IF c.raised THEN [outcome |-> "ValidationError", rows |-> {}]
        ELSE IF ~unique_ok(c.self, others)
             THEN [outcome |-> "IntegrityError", rows |-> {}]
             ELSE [outcome |-> "saved", rows |-> {c.self}]

\* ----------------------------------------------------------- input pools
\* list texts an administrator stores: two names, an empty line between them,
\* the second padded and in capitals; one name
BothNames == <<"b", NL, NL, SP, "A">>

SysTexts == {BothNames, <<"a">>}

\* fullnames as submitted: a capital with a trailing blank, another name,
\* whitespace only
SysNames == { <<"A", SP>>, <<"b">>, <<SP>> }

Submission(fullname, email, telephone, student_id) ==
    [fullname |-> fullname, email |-> email, telephone |-> telephone,
     student_id |-> student_id]

\* registrations that all give the same contact details
Submissions == {Submission(n, "e1", "t1", "s1") : n \in SysNames}

\* two registrations with nothing in common, eligible by different lists
Pair ==
    { Submission(<<"A", SP>>, "e1", "t1", "s1"),
      Submission(<<"b">>, "e2", "t2", "s2") }

\* registrations that share exactly one unique field with the first, or none
Rivals ==
    { Submission(<<"a">>, "e1", "t1", "s1"),
      Submission(<<"a">>, "e2", "t2", "s2"),
      Submission(<<"b">>, "e1", "t2", "s2"),
      Submission(<<"b">>, "e2", "t1", "s2"),
      Submission(<<"b">>, "e2", "t2", "s1"),
      Submission(<<"b">>, "e2", "t2", "s2") }

Pks(rows) == {rows[i].pk : i \in 1..Len(rows)}

\* a Voter instance: the submitted fields and a registered_list
Instance(data, registered_list) ==
    [fullname |-> data.fullname, email |-> data.email,
     telephone |-> data.telephone, student_id |-> data.student_id,
     registered_list |-> registered_list]

Idle == [pc |-> "idle"]

Outcome(op, outcome, fullname, found, overwrote) ==
    [op |-> op, outcome |-> outcome, fullname |-> fullname, found |-> found,
     overwrote |-> overwrote, cascaded |-> 0]

Did(op) == Outcome(op, "ok", <<>>, None, FALSE)

\* sequence q without its i-th element, and with x put in at position i
Without(q, i) == SubSeq(q, 1, i - 1) \o SubSeq(q, i + 1, Len(q))
PutAt(q, i, x) == SubSeq(q, 1, i - 1) \o <<x>> \o SubSeq(q, i, Len(q))

\* ------------------------------------------------------------- operations
\* admin: add a RegisteredVoter; where the row shows up in an unordered
\* query is the database's choice
ListCreate(texts) ==
    /\ nextListId <= MaxListId
    /\ \E names \in texts : \E i \in 1..(Len(lists) + 1) :
          lists' = PutAt(lists, i, [pk |-> nextListId, names |-> names])
    /\ nextListId' = nextListId + 1
    /\ last' = Did("list_create")
    /\ UNCHANGED <<voters, req, ptext, pname, pres>>

\* admin: change the names of a RegisteredVoter; the rewritten row may move
ListEdit(texts) ==
    /\ \E i, j \in 1..Len(lists) : \E names \in texts \ {lists[i].names} :
          lists' = PutAt(Without(lists, i), j, [lists[i] EXCEPT !.names = names])
    /\ last' = Did("list_edit")
    /\ UNCHANGED <<nextListId, voters, req, ptext, pname, pres>>

\* the delete with the voters left behind (no cascade)
ListDeleteNoCascade ==
    /\ \E i \in 1..Len(lists) :
          /\ lists' = Without(lists, i)
          /\ last' = [Did("list_delete") EXCEPT !.found = lists[i].pk]
    /\ UNCHANGED <<nextListId, voters, req, ptext, pname, pres>>

\* admin: delete a RegisteredVoter; on_delete=CASCADE removes its voters
\* (last.found is the deleted pk, last.cascaded how many voters went with it)
ListDelete ==
    /\ \E i \in 1..Len(lists) :
          /\ lists' = Without(lists, i)
          /\ voters' = {v \in voters : v.registered_list # lists[i].pk}
          /\ last' = [Did("list_delete") EXCEPT
                         !.found = lists[i].pk,
                         !.cascaded = Cardinality({v \in voters :
                                          v.registered_list = lists[i].pk})]
    /\ UNCHANGED <<nextListId, req, ptext, pname, pres>>

\* the database reorganises its storage: an unordered query has no fixed order
Reorder ==
    /\ \E i, j \in 1..Len(lists) :
          /\ i # j
          /\ lists' = PutAt(Without(lists, i), j, lists[i])
    /\ last' = Did("reorder")
    /\ UNCHANGED <<nextListId, voters, req, ptext, pname, pres>>

\* the effect of Voter.save on the table: old is the row self was loaded
\* from ({} for a new instance). last.found is what is_eligible_voter
\* returned, last.overwrote tells that self carried a registered_list other
\* than the one clean assigned
Persist(op, self, old) ==
    LET r == save(self, voters \ old, lists)
        found == is_eligible_voter(self.fullname, lists)
    IN  /\ voters' = IF r.outcome = "saved" THEN (voters \ old) \cup r.rows ELSE voters
        /\ last' = Outcome(op, r.outcome, self.fullname, found,
                           r.outcome = "saved"
                               /\ self.registered_list \notin {None, found})

\* Voter(...).save() on a new instance, registered_list unset or preset
VoterCreate(pool) ==
    /\ \E data \in pool : \E registered_list \in {None} \cup Pks(lists) :
          Persist("create", Instance(data, registered_list), {})
    /\ UNCHANGED <<lists, nextListId, req, ptext, pname, pres>>

\* save() of a loaded row after its fields were changed (the admin change form)
VoterUpdate(pool) ==
    /\ \E old \in voters : \E data \in pool :
       \E registered_list \in {None} \cup Pks(lists) :
          Persist("update", Instance(data, registered_list), {old})
    /\ UNCHANGED <<lists, nextListId, req, ptext, pname, pres>>

\* ------------------------------------------------------- registration view
\* what voter_forms answers after form.save() ended with outcome
voter_forms_response(outcome) ==
    IF outcome = "saved" THEN "redirect" ELSE "error"

\* VoterRegistrationForm.clean_fullname: TRUE when it raises
clean_fullname_raises(fullname, registered_lists) ==
    fullname # <<>> /\ is_eligible_voter(fullname, registered_lists) = None

\* POST, form.is_valid(): the fields are cleaned (the fullname stripped and
\* required), clean_fullname runs, then the instance is built and validated
\* (Voter.clean, the unique checks)
ViewPost(pool) ==
    /\ req = Idle
    /\ \E data \in pool :
          LET fullname == strip(data.fullname)
              c == clean(Instance([data EXCEPT !.fullname = fullname], None), lists)
          IN  IF \/ fullname = <<>>
                 \/ clean_fullname_raises(fullname, lists)
                 \/ c.raised
                 \/ ~unique_ok(c.self, voters)
              THEN /\ req' = Idle
                   /\ last' = Outcome("is_valid", "form_errors", data.fullname,
                                      c.self.registered_list, FALSE)
              ELSE /\ req' = [pc |-> "validated", instance |-> c.self]
                   /\ last' = Outcome("is_valid", "valid", data.fullname,
                                      c.self.registered_list, FALSE)
    /\ UNCHANGED <<lists, nextListId, voters, ptext, pname, pres>>

\* form.save() of the validated form, and the view's answer
ViewSave ==
    /\ req # Idle
    /\ Persist("form.save", req.instance, {})
    /\ req' = Idle
    /\ UNCHANGED <<lists, nextListId, ptext, pname, pres>>

\* ------------------------------------------------------------ admin checks
\* the RegisteredVoter row a voter's registered_list refers to
related(pk) == CHOOSE l \in Range(lists) : l.pk = pk

\* the comprehension VoterAdmin.registration_status builds itself
status_eligible_names(names) ==
    LET kept == SelectSeq(split(names), LAMBDA name : strip(name) # <<>>)
    IN  [i \in 1..Len(kept) |-> lower(strip(kept[i]))]

\* VoterAdmin.registration_status
registration_status(obj) ==
    IF obj.registered_list = None \/ related(obj.registered_list).names = <<>>
    THEN "No eligible voter list assigned"
    ELSE IF lower(obj.fullname) \in
                Range(status_eligible_names(related(obj.registered_list).names))
         THEN "Valid Registration"
         ELSE "Name not in eligible list"

\* the test validate_all_registrations and export_voter_data share
admin_name_valid(voter) ==
    lower(voter.fullname) \in
        Range(get_eligible_names(related(voter.registered_list).names))

\* VoterAdmin.validate_all_registrations: <<valid_count, invalid_count>>
validate_all_registrations(queryset) ==
    LET valid == {voter \in queryset :
                     voter.registered_list # None /\ admin_name_valid(voter)}
    IN  <<Cardinality(valid), Cardinality(queryset \ valid)>>

\* VoterAdmin.export_voter_data: the Status column of voter's row
export_status(voter) ==
    IF voter.registered_list # None
    THEN IF admin_name_valid(voter) THEN "Valid" ELSE "Invalid"
    ELSE "No List Assigned"

\* ---------------------------------------------------------- specification
Init ==
    /\ lists = <<>>
    /\ nextListId = 1
    /\ voters = {}
    /\ req = Idle
    /\ last = Did("init")
    /\ ptext = <<>>
    /\ pname = <<>>
    /\ pres = <<"init", <<>>>>

\* lists, saves and the registration view
Next ==
    \/ ListCreate(SysTexts)
    \/ ListEdit(SysTexts)
    \/ ListDelete
    \/ Reorder
    \/ VoterCreate(Submissions)
    \/ VoterUpdate(Submissions)
    \/ ViewPost(Submissions)
    \/ ViewSave

Spec == Init /\ [][Next]_vars

\* the same operations, the two registrations able to coexist
PairNext ==
    \/ ListCreate(SysTexts)
    \/ ListEdit(SysTexts)
    \/ ListDelete
    \/ Reorder
    \/ VoterCreate(Pair)
    \/ VoterUpdate(Pair)
    \/ ViewPost(Pair)
    \/ ViewSave

PairSpec == Init /\ [][PairNext]_vars

\* registrations differing in their unique fields, every list holding both
\* names
RivalNext ==
    \/ ListCreate({BothNames})
    \/ ListDelete
    \/ Reorder
    \/ VoterCreate(Rivals)
    \/ VoterUpdate(Rivals)
    \/ ViewPost(Rivals)
    \/ ViewSave

RivalSpec == Init /\ [][RivalNext]_vars

\* ------------------------------------------------- the matcher on its own
\* every list text and every candidate name within the bounds
MatcherInit ==
    /\ ptext \in StringsUpTo(MaxTextLen)
    /\ pname \in StringsUpTo(MaxNameLen)
    /\ pres = <<"init", <<>>>>
    /\ lists = <<>>
    /\ nextListId = 1
    /\ voters = {}
    /\ req = Idle
    /\ last = Did("init")

\* get_eligible_names of the text
Derive ==
    /\ pres' = <<"get_eligible_names", get_eligible_names(ptext)>>
    /\ UNCHANGED <<ptext, pname, dbvars>>

\* the membership test of the name in the text
Match ==
    /\ pres' = <<"name_in_list", name_in_list(pname, ptext)>>
    /\ UNCHANGED <<ptext, pname, dbvars>>

MatcherNext == Derive \/ Match

MatcherSpec == MatcherInit /\ [][MatcherNext]_vars

\* ------------------------------------------------- what the claims speak of
Blank(s) == \A i \in 1..Len(s) : IsSpace(s[i])

\* a string without its leading and trailing whitespace
Core(s) ==
    LET inked == {i \in 1..Len(s) : ~IsSpace(s[i])}
    IN  IF inked = {} THEN <<>>
        ELSE SubSeq(s, CHOOSE i \in inked : \A j \in inked : i <= j,
                       CHOOSE i \in inked : \A j \in inked : i >= j)

\* trimmed, then lower-cased
Normalized(s) == [i \in 1..Len(Core(s)) |-> IF Core(s)[i] = "A" THEN "a" ELSE Core(s)[i]]

\* where the lines of a text start and end: its maximal stretches without a
\* line break (an empty line ends one before it starts)
LineSpans(text) ==
    {ij \in (1..(Len(text) + 1)) \X (0..Len(text)) :
        /\ ij[1] <= ij[2] + 1
        /\ (ij[1] = 1 \/ text[ij[1] - 1] = NL)
        /\ (ij[2] = Len(text) \/ text[ij[2] + 1] = NL)
        /\ \A k \in ij[1]..ij[2] : text[k] # NL}

Lines(text) == {SubSeq(text, ij[1], ij[2]) : ij \in LineSpans(text)}

\* the non-blank lines of a text, normalized, in line order
NormalizedLines(text) ==
    LET inked == {ij \in LineSpans(text) : ~Blank(SubSeq(text, ij[1], ij[2]))}
        nth(k) == CHOOSE ij \in inked :
                      Cardinality({e \in inked : e[1] < ij[1]}) = k - 1
    IN  [k \in 1..Cardinality(inked) |-> Normalized(SubSeq(text, nth(k)[1], nth(k)[2]))]

\* the derived name set of a list text
DerivedNames(text) == {Normalized(l) : l \in Lines(text)} \ {<<>>}

\* the positions of the lists, in iteration order, whose names hold the candidate
Matching(candidate) ==
    {i \in 1..Len(lists) : Normalized(candidate) \in DerivedNames(lists[i].names)}

Eligible(candidate) == Matching(candidate) # {}

\* the pk of the first matching list in iteration order, None without a match
FirstMatch(candidate) ==
    IF Matching(candidate) = {} THEN None
    ELSE lists[CHOOSE i \in Matching(candidate) :
                   \A j \in Matching(candidate) : i <= j].pk

SaveOps == {"create", "update", "form.save"}

Saved == last.op \in SaveOps /\ last.outcome = "saved"

\* the persisted rows carrying the fullname of the last save
SavedRows == {v \in voters : v.fullname = last.fullname}

\* two characters that differ at most in letter case
SameLetter(c, d) == c = d \/ {c, d} = {"a", "A"}

\* s[i..j] is s without its leading and trailing whitespace
Padded(s, i, j) ==
    /\ ~IsSpace(s[i])
    /\ ~IsSpace(s[j])
    /\ \A k \in 1..Len(s) : (k < i \/ k > j) => IsSpace(s[k])

\* x and y are the same non-empty name up to letter case and surrounding
\* whitespace
SameName(x, y) ==
    \E i, j \in 1..Len(x) : \E k, l \in 1..Len(y) :
        /\ Padded(x, i, j)
        /\ Padded(y, k, l)
        /\ j - i = l - k
        /\ \A d \in 0..(j - i) : SameLetter(x[i + d], y[k + d])

\* ------------------------------------------------------------------ claims
\* C1: Voter.save (and the view calling it) persists a voter only if, at
\* the moment of the save, the trimmed, lower-cased fullname is in the
\* derived names of some existing list; without a match ValidationError is
\* raised, the view answers with an error, and the persisted voters are
\* exactly what they were.
C1_SaveNeedsEligibleName ==
    [][last'.op \in SaveOps =>
        /\ (last'.outcome = "ValidationError") = ~Eligible(last'.fullname)
        /\ ~Eligible(last'.fullname) =>
              /\ voters' = voters
              /\ voter_forms_response(last'.outcome) = "error"
        /\ voters' # voters => Eligible(last'.fullname)
        /\ last'.outcome = "saved" =>
              \E v \in voters' : v.fullname = last'.fullname]_vars

\* a save was refused for want of a match, the table holding a voter
C1_Witness ==
    /\ last.op \in SaveOps
    /\ last.outcome = "ValidationError"
    /\ ~Blank(last.fullname)
    /\ lists # <<>>
    /\ voters # {}

C3_FirstMatchOrNone ==
    last.op \in SaveOps \cup {"is_valid"} =>
        LET m == Matching(last.fullname)
        IN  /\ (last.found = None) = (m = {})
            /\ m # {} => \E i \in m : /\ lists[i].pk = last.found
                                       /\ \A j \in m : i <= j

\* two lists match and the one returned, first in the query's order, is the
\* one created later
C3_Witness ==
    /\ last.op \in SaveOps
    /\ Cardinality(Matching(last.fullname)) = 2
    /\ last.found = lists[1].pk
    /\ lists[1].pk > lists[2].pk

\* C4 as claimed: get_eligible_names yields exactly the derived set of the
\* text (split on line breaks, each line trimmed and lower-cased, empty
\* results discarded), and duplicate lines collapse to a single entry.
C4_Original ==
    pres[1] = "get_eligible_names" =>
        /\ Range(pres[2]) = DerivedNames(ptext)
        /\ <<>> \notin Range(pres[2])
        /\ Len(pres[2]) = Cardinality(Range(pres[2]))

\* C4 amended: get_eligible_names yields a list with one entry per non-blank
\* line, in line order, each the trimmed, lower-cased line; the set of its
\* entries is exactly the derived set and holds no empty entry, while a
\* duplicate line appears once per occurrence.
C4_ListOfNormalizedLines ==
    pres[1] = "get_eligible_names" =>
        /\ pres[2] = NormalizedLines(ptext)
        /\ Range(pres[2]) = DerivedNames(ptext)
        /\ <<>> \notin Range(pres[2])

\* a text whose two lines differ in case only: two equal entries
C4_Witness ==
    /\ pres[1] = "get_eligible_names"
    /\ Len(pres[2]) = 2
    /\ Cardinality(Range(pres[2])) = 1
    /\ "A" \in Range(ptext)

\* C5: the membership test succeeds exactly when the candidate is, up to
\* letter case and surrounding whitespace, some non-blank line of the text.
C5_CaseAndPaddingInsensitive ==
    pres[1] = "name_in_list" =>
        (pres[2] = \E l \in Lines(ptext) : SameName(pname, l))

\* a padded, capitalised candidate matched a line written otherwise
C5_Witness ==
    /\ pres = <<"name_in_list", TRUE>>
    /\ pname \notin Lines(ptext)
    /\ "A" \in Range(pname)
    /\ \E i \in 1..Len(pname) : IsSpace(pname[i])
    /\ "a" \in Range(ptext)

\* C6: an empty or whitespace-only fullname matches no list, whatever the
\* lists (blank lines are in no derived set): Voter.save of it raises
\* ValidationError and persists nothing, and the form refuses it.
C6_BlankNameNeverSaved ==
    [][Blank(last'.fullname) =>
        /\ last'.op \in SaveOps =>
              /\ last'.found = None
              /\ last'.outcome = "ValidationError"
              /\ voters' = voters
        /\ last'.op = "is_valid" =>
              /\ last'.outcome = "form_errors"
              /\ req' = Idle]_vars

\* a whitespace-only name was refused while a list held an empty line
C6_Witness ==
    /\ last.op \in SaveOps
    /\ last.fullname # <<>>
    /\ Blank(last.fullname)
    /\ last.outcome = "ValidationError"
    /\ \E i \in 1..Len(lists) : <<>> \in Lines(lists[i].names)
    /\ voters # {}

\* C7: deleting a list deletes every voter referring to it and leaves every
\* other voter and every other list as it was; so every persisted voter's
\* non-null registered_list refers to a list that exists.
C7_CascadeKeepsReferences ==
    /\ [](\A v \in voters :
             v.registered_list # None => v.registered_list \in Pks(lists))
    /\ [][last'.op = "list_delete" =>
            LET gone == Pks(lists) \ Pks(lists')
            IN  /\ gone = {last'.found}
                /\ voters' = {v \in voters : v.registered_list \notin gone}
                /\ Range(lists') = {l \in Range(lists) : l.pk \notin gone}]_vars

\* a delete took a voter with it and left another voter and another list
C7_Witness ==
    /\ last.op = "list_delete"
    /\ last.cascaded > 0
    /\ voters # {}
    /\ lists # <<>>

\* C8: no two persisted voters share a fullname, an email, a telephone or a
\* student_id; a save that fails leaves the table as it was, and one that
\* succeeds adds or replaces exactly one row, so a save that would duplicate
\* a unique field of another row cannot succeed.
C8_UniqueFields ==
    /\ [](\A v, w \in voters :
             v # w => /\ v.fullname # w.fullname
                      /\ v.email # w.email
                      /\ v.telephone # w.telephone
                      /\ v.student_id # w.student_id)
    /\ [][last'.op \in SaveOps =>
            IF last'.outcome # "saved" THEN voters' = voters
            ELSE IF last'.op = "update"
                 THEN \E old \in voters : \E new \in voters' :
                         voters' = (voters \ {old}) \cup {new}
                 ELSE \E new \in voters' \ voters :
                         voters' = voters \cup {new}]_vars

\* a registration failed on a unique field with two voters persisted
C8_Witness ==
    /\ last.op \in SaveOps
    /\ last.outcome = "IntegrityError"
    /\ Cardinality(voters) = 2

\* C9 as claimed: right after Voter.save accepted a voter (no list edited
\* or deleted since), registration_status, validate_all_registrations and
\* export_voter_data all report the voter as valid.
C9_AdminAgreesWithSave ==
    Saved =>
        \A v \in SavedRows :
            /\ registration_status(v) = "Valid Registration"
            /\ validate_all_registrations({v}) = <<1, 0>>
            /\ export_status(v) = "Valid"

\* C10: form.save() checks eligibility again: when no list matches any more
\* at save time, ValidationError is raised, the view answers with an error
\* and nothing is persisted; when a list matches (and no unique field is
\* taken) the voter is persisted with the list first-matching at save time.
C10_EligibilityRecheckedAtSave ==
    [][last'.op = "form.save" =>
        IF ~Eligible(req.instance.fullname)
        THEN /\ last'.outcome = "ValidationError"
             /\ voter_forms_response(last'.outcome) = "error"
             /\ voters' = voters
        ELSE /\ last'.outcome # "ValidationError"
             /\ (\A v \in voters : /\ v.fullname # req.instance.fullname
                                   /\ v.email # req.instance.email
                                   /\ v.telephone # req.instance.telephone
                                   /\ v.student_id # req.instance.student_id)
                => /\ last'.outcome = "saved"
                   /\ voter_forms_response(last'.outcome) = "redirect"
                   /\ voters' = voters \cup
                        {[req.instance EXCEPT
                            !.registered_list = FirstMatch(req.instance.fullname)]}]_vars

\* the form was valid, the lists changed, and form.save() raised
C10_Witness ==
    /\ last.op = "form.save"
    /\ last.outcome = "ValidationError"
    /\ lists # <<>>

====
